---- MODULE Spec2Model ----
(***************************************************************************)
(* Model of src/hello_world.py: the DAG 'example_task_decorator_dag' with  *)
(* its five @task functions (extract_data, transform_data, validate_data,  *)
(* load_data, send_notification), the wiring of lines 145-149 and the      *)
(* retry policy of default_args.                                           *)
(*                                                                         *)
(* Python values are records: an int is [t |-> "int", i |-> n], a str is   *)
(* [t |-> "str", s |-> <<characters>>], None is [t |-> "none"].  A dict is *)
(* a record; a key the dict does not hold carries the marker Absent.  A    *)
(* list is a sequence.  A call's outcome is [exc, val, log]: the exception *)
(* raised ("none" when the call returned), the value returned and the      *)
(* lines logged.                                                           *)
(*                                                                         *)
(* The engine that runs the DAG is not part of the file.  What the file    *)
(* fixes is modelled: the dependencies made by passing results, the retry  *)
(* count, the manual trigger.  When the engine binds a call's arguments to *)
(* the function's parameters is left open (bind_at): on declaration, which *)
(* makes the import of the file fail, or on invocation, which makes the    *)
(* try of the task fail.                                                   *)
(***************************************************************************)
EXTENDS Integers, Sequences, FiniteSets, TLC

\* ------------------------------------------------------------ bounds
\* Largest reading of the wall clock (datetime.now()).
MaxClock == 2
\* Longest list of raw records handed to transform_data on its own.
MaxRaw == 2
\* Longest list of transformed records handed to validate_data / load_data.
MaxUsers == 2
\* Longest list of raw records the stubbed source yields in a DAG run.
MaxSource == 2
\* Largest invalid_records / longest error list of a hand-made validation outcome.
MaxInvalid == 2

\* ------------------------------------------------------------ values
None == [t |-> "none"]
Absent == [t |-> "absent"]
IntV(n) == [t |-> "int", i |-> n]
StrV(chars) == [t |-> "str", s |-> chars]
\* datetime.isoformat() of the clock reading n
isoformat(n) == [t |-> "str", iso |-> n]

\* Python truthiness of a value: None, 0 and '' are falsy.
Truthy(v) ==
    CASE v.t = "none" -> FALSE
      [] v.t = "int" -> v.i # 0
      [] v.t = "str" -> IF "s" \in DOMAIN v THEN v.s # <<>> ELSE TRUE

\* dict.get(key): None when the key is not in the dict.
get(d, key) == IF d[key] = Absent THEN None ELSE d[key]

Return(v, lines) == [exc |-> "none", val |-> v, log |-> lines]
Raise(e, lines) == [exc |-> e, log |-> lines]
Info(template, data) == [level |-> "INFO", template |-> template, data |-> data]
Warning(template, data) == [level |-> "WARNING", template |-> template, data |-> data]

\* ------------------------------------------------------------ str methods
LowerCase == <<"a", "b", "c", "d", "e", "f", "g", "h", "i", "j", "k", "l", "m", "n", "o", "p", "q", "r", "s", "t", "u", "v", "w", "x", "y", "z">>
UpperCase == <<"A", "B", "C", "D", "E", "F", "G", "H", "I", "J", "K", "L", "M", "N", "O", "P", "Q", "R", "S", "T", "U", "V", "W", "X", "Y", "Z">>

upper_char(c) ==
    IF \E k \in 1..Len(LowerCase) : LowerCase[k] = c
    THEN UpperCase[CHOOSE k \in 1..Len(LowerCase) : LowerCase[k] = c]
    ELSE c

\* str.upper()
upper(chars) == [k \in 1..Len(chars) |-> upper_char(chars[k])]

\* str.split(sep): the segments between the separators, n separators giving n+1 segments.
RECURSIVE split(_, _)
split(chars, sep) ==
    IF \A k \in 1..Len(chars) : chars[k] # sep
    THEN <<chars>>
    ELSE LET k == CHOOSE j \in 1..Len(chars) :
                      chars[j] = sep /\ \A m \in 1..(j - 1) : chars[m] # sep
         IN <<SubSeq(chars, 1, k - 1)>> \o split(SubSeq(chars, k + 1, Len(chars)), sep)

\* ------------------------------------------------------------ extract_data
SampleUsers ==
    << [id |-> IntV(1), name |-> StrV(<<"A", "l", "i", "c", "e">>),
        email |-> StrV(<<"a", "l", "i", "c", "e", "@", "e", "x", "a", "m", "p", "l", "e", ".", "c", "o", "m">>)],
       [id |-> IntV(2), name |-> StrV(<<"B", "o", "b">>),
        email |-> StrV(<<"b", "o", "b", "@", "e", "x", "a", "m", "p", "l", "e", ".", "c", "o", "m">>)],
       [id |-> IntV(3), name |-> StrV(<<"C", "h", "a", "r", "l", "i", "e">>),
        email |-> StrV(<<"c", "h", "a", "r", "l", "i", "e", "@", "e", "x", "a", "m", "p", "l", "e", ".", "c", "o", "m">>)] >>

extract_data ==
    LET data == [users |-> SampleUsers]
    IN Return(data, << Info("Starting data extraction...", None),
                       Info("Extracted {} user records", IntV(Len(data.users))) >>)

\* ------------------------------------------------------------ transform_data
\* Variant: the first segment of the split, the local part, taken as the domain.
transform_user_local_part(user, reading) ==
    LET parts == split(user.email.s, "@")
    IN IF Len(parts) < 2
       THEN [exc |-> "IndexError"]
       ELSE [exc |-> "none",
             rec |-> [user_id |-> user.id,
                      full_name |-> StrV(upper(user.name.s)),
                      email_domain |-> StrV(parts[1]),
                      processed_at |-> isoformat(reading)]]

\* The dict of lines 47-52 for one raw record, `reading` being datetime.now().
\* A missing '@' makes split('@')[1] raise IndexError.
transform_user(user, reading) ==
    LET parts == split(user.email.s, "@")
    IN IF Len(parts) < 2
       THEN [exc |-> "IndexError"]
       ELSE [exc |-> "none",
             rec |-> [user_id |-> user.id,
                      full_name |-> StrV(upper(user.name.s)),
                      email_domain |-> StrV(parts[2]),
                      processed_at |-> isoformat(reading)]]

\* The loop of lines 46-53 from record k on, acc being transformed_users so
\* far.  Nothing catches the IndexError: acc is dropped with it.
RECURSIVE transform_loop(_, _, _, _)
transform_loop(users, ts, k, acc) ==
    IF k > Len(users)
    THEN Return([transformed_users |-> acc],
                << Info("Starting data transformation...", None),
                   Info("Transformed {} user records", IntV(Len(acc))) >>)
    ELSE LET step == transform_user(users[k], ts[k])
         IN IF step.exc # "none"
            THEN Raise(step.exc, << Info("Starting data transformation...", None) >>)
            ELSE transform_loop(users, ts, k + 1, Append(acc, step.rec))

\* Variant: records without an '@' are left out before the loop.
transform_data_skip_malformed(raw_data, ts) ==
    LET kept == SelectSeq(raw_data.users, LAMBDA user : Len(split(user.email.s, "@")) >= 2)
    IN transform_loop(kept, ts, 1, <<>>)

transform_data(raw_data, ts) == transform_loop(raw_data.users, ts, 1, <<>>)

\* ------------------------------------------------------------ validate_data
\* Variant: invalid_records counts the messages, not the records.
validate_user_per_message(user, res) ==
    LET missing_required == ~Truthy(get(user, "user_id")) \/ ~Truthy(get(user, "full_name"))
        missing_domain == ~Truthy(get(user, "email_domain"))
        errs1 == IF missing_required
                 THEN Append(res.validation_errors,
                             [template |-> "Missing required fields for user: {}", data |-> user])
                 ELSE res.validation_errors
        errs2 == IF missing_domain
                 THEN Append(errs1,
                             [template |-> "Missing email domain for user: {}", data |-> user.user_id])
                 ELSE errs1
        is_valid == ~missing_required /\ ~missing_domain
    IN IF missing_domain /\ user.user_id = Absent
       THEN [exc |-> "KeyError"]
       ELSE [exc |-> "none",
             res |-> [total_records |-> res.total_records,
                      valid_records |-> res.valid_records + (IF is_valid THEN 1 ELSE 0),
                      invalid_records |-> res.invalid_records
                                          + (IF missing_required THEN 1 ELSE 0)
                                          + (IF missing_domain THEN 1 ELSE 0),
                      validation_errors |-> errs2]]

\* Variant: a missing email domain is reported but does not clear is_valid.
validate_user_domain_unflagged(user, res) ==
    LET missing_required == ~Truthy(get(user, "user_id")) \/ ~Truthy(get(user, "full_name"))
        missing_domain == ~Truthy(get(user, "email_domain"))
        errs1 == IF missing_required
                 THEN Append(res.validation_errors,
                             [template |-> "Missing required fields for user: {}", data |-> user])
                 ELSE res.validation_errors
        errs2 == IF missing_domain
                 THEN Append(errs1,
                             [template |-> "Missing email domain for user: {}", data |-> user.user_id])
                 ELSE errs1
        is_valid == ~missing_required
    IN IF missing_domain /\ user.user_id = Absent
       THEN [exc |-> "KeyError"]
       ELSE [exc |-> "none",
             res |-> [total_records |-> res.total_records,
                      valid_records |-> res.valid_records + (IF is_valid THEN 1 ELSE 0),
                      invalid_records |-> res.invalid_records + (IF is_valid THEN 0 ELSE 1),
                      validation_errors |-> errs2]]

\* One pass of the loop body of lines 74-94 over `user`, res being
\* validation_results so far.  The second message reads user['user_id'] by
\* subscript: a dict without that key raises KeyError there.
validate_user(user, res) ==
    LET missing_required == ~Truthy(get(user, "user_id")) \/ ~Truthy(get(user, "full_name"))
        missing_domain == ~Truthy(get(user, "email_domain"))
        errs1 == IF missing_required
                 THEN Append(res.validation_errors,
                             [template |-> "Missing required fields for user: {}", data |-> user])
                 ELSE res.validation_errors
        errs2 == IF missing_domain
                 THEN Append(errs1,
                             [template |-> "Missing email domain for user: {}", data |-> user.user_id])
                 ELSE errs1
        is_valid == ~missing_required /\ ~missing_domain
    IN IF missing_domain /\ user.user_id = Absent
       THEN [exc |-> "KeyError"]
       ELSE [exc |-> "none",
             res |-> [total_records |-> res.total_records,
                      valid_records |-> res.valid_records + (IF is_valid THEN 1 ELSE 0),
                      invalid_records |-> res.invalid_records + (IF is_valid THEN 0 ELSE 1),
                      validation_errors |-> errs2]]

RECURSIVE validate_loop(_, _, _)
validate_loop(users, k, res) ==
    IF k > Len(users)
    THEN Return(res, << Info("Starting data validation...", None),
                        Info("Validation complete: {} valid, {} invalid records",
                             [valid |-> res.valid_records, invalid |-> res.invalid_records]) >>)
    ELSE LET step == validate_user(users[k], res)
         IN IF step.exc # "none"
            THEN Raise(step.exc, << Info("Starting data validation...", None) >>)
            ELSE validate_loop(users, k + 1, step.res)

validate_data(transformed_data) ==
    LET users == transformed_data.transformed_users
    IN validate_loop(users, 1, [total_records |-> Len(users), valid_records |-> 0,
                                invalid_records |-> 0, validation_errors |-> <<>>])

\* ------------------------------------------------------------ load_data
\* The warnings of lines 106-109.
load_warnings(validation_results) ==
    IF validation_results.invalid_records > 0
    THEN << Warning("Found {} invalid records", IntV(validation_results.invalid_records)) >>
         \o [k \in 1..Len(validation_results.validation_errors) |->
                Warning("Validation error: {}", validation_results.validation_errors[k])]
    ELSE <<>>

\* Variant: only the records validation passed are loaded.
load_data_valid_only(transformed_data, validation_results, ts) ==
    LET users_to_load == transformed_data.transformed_users
        loading_summary_ == [records_processed |-> Len(users_to_load) - validation_results.invalid_records,
                             load_timestamp |-> isoformat(ts),
                             status |-> StrV(<<"c", "o", "m", "p", "l", "e", "t", "e", "d">>)]
    IN Return(loading_summary_,
              << Info("Starting data loading...", None) >>
              \o load_warnings(validation_results)
              \o << Info("Successfully loaded {} records", IntV(Len(users_to_load))) >>)

load_data(transformed_data, validation_results, ts) ==
    LET users_to_load == transformed_data.transformed_users
        loading_summary_ == [records_processed |-> Len(users_to_load),
                             load_timestamp |-> isoformat(ts),
                             status |-> StrV(<<"c", "o", "m", "p", "l", "e", "t", "e", "d">>)]
    IN Return(loading_summary_,
              << Info("Starting data loading...", None) >>
              \o load_warnings(validation_results)
              \o << Info("Successfully loaded {} records", IntV(Len(users_to_load))) >>)

\* ------------------------------------------------------------ send_notification
NotificationSent == StrV(<<"N", "o", "t", "i", "f", "i", "c", "a", "t", "i", "o", "n", " ", "s", "e", "n", "t", " ", "s", "u", "c", "c", "e", "s", "s", "f", "u", "l", "l", "y">>)

send_notification(loading_summary_, validation_results) ==
    LET message == [records_processed |-> loading_summary_.records_processed,
                    valid_records |-> validation_results.valid_records,
                    invalid_records |-> validation_results.invalid_records,
                    completion_time |-> loading_summary_.load_timestamp,
                    status |-> loading_summary_.status]
    IN Return(NotificationSent,
              << Info("Sending completion notification...", None),
                 Info("ETL Pipeline Completed Successfully! ...", message) >>)

\* ------------------------------------------------------------ the DAG
\* retries of default_args; a task is tried at most retries + 1 times.
retries == 1

Tasks == {"extract_data", "transform_data", "validate_data", "load_data", "send_notification"}

\* Parameters of each @task function, from its def line.
params ==
    [extract_data |-> <<>>,
     transform_data |-> <<"raw_data">>,
     validate_data |-> <<"transformed_data">>,
     load_data |-> <<"transformed_data", "validation_results">>,
     send_notification |-> <<"loading_summary", "validation_results">>]

\* The positional arguments of each call of lines 145-149: the tasks whose
\* results are passed.
op_args ==
    [extract_data |-> <<>>,
     transform_data |-> <<"extract_data">>,
     validate_data |-> <<"transform_data">>,
     load_data |-> <<"transform_data", "validate_data">>,
     send_notification |-> <<"load_data">>]

\* Variant: only the first argument makes a dependency.
upstream_first_only(task) == IF Len(op_args[task]) = 0 THEN {} ELSE {op_args[task][1]}

\* A task is downstream of every task whose result it is passed.
upstream(task) == {op_args[task][k] : k \in 1..Len(op_args[task])}

\* inspect.Signature.bind: every parameter gets an argument (none has a default).
binds(task, args) == Len(args) = Len(params[task])

VARIABLES
    dag,                   \* "unparsed", "import_error", "loaded", "running"
    bind_at,               \* when the engine binds a call's arguments: "declare" or "invoke"
    state,                 \* task -> task instance state
    tries,                 \* task -> number of attempts started
    bound,                 \* task -> the arguments of its last invocation
    raw_data_res,          \* the results, None until the task returns
    transformed_data_res,
    validate_data_res,
    loading_summary,
    notification,
    now,                   \* the wall clock
    log,                   \* the lines logged by the DAG run
    fn, inp, out           \* a function called on its own: name, arguments, outcome

results == <<raw_data_res, transformed_data_res, validate_data_res, loading_summary, notification>>
engine == <<dag, bind_at, state, tries, bound, now, log>>
direct == <<fn, inp, out>>
vars == <<engine, results, direct>>

\* The value a task pushed (its return value).
xcom(task) ==
    CASE task = "extract_data" -> raw_data_res
      [] task = "transform_data" -> transformed_data_res
      [] task = "validate_data" -> validate_data_res
      [] task = "load_data" -> loading_summary
      [] task = "send_notification" -> notification

\* Non-decreasing readings of the clock, n of them, none before `from`.
Readings(n, from) ==
    {ts \in [1..n -> from..MaxClock] : \A k \in 1..(n - 1) : ts[k] <= ts[k + 1]}

Last(ts, from) == IF Len(ts) = 0 THEN from ELSE ts[Len(ts)]

Finished == {"success", "failed", "upstream_failed"}

Init ==
    /\ dag = "unparsed"
    /\ bind_at \in {"declare", "invoke"}
    /\ state = [task \in Tasks |-> "none"]
    /\ tries = [task \in Tasks |-> 0]
    /\ bound = [task \in Tasks |-> <<>>]
    /\ raw_data_res = None
    /\ transformed_data_res = None
    /\ validate_data_res = None
    /\ loading_summary = None
    /\ notification = None
    /\ now = 0
    /\ log = <<>>
    /\ fn = "" /\ inp = <<>> /\ out = None

\* The engine imports the file: the with-block of lines 16-23 and the five calls
\* of lines 145-149.  A call whose arguments do not bind raises TypeError, at the
\* call when the engine binds on declaration.
parse_dag ==
    /\ dag = "unparsed"
    /\ dag' = IF bind_at = "declare" /\ \E task \in Tasks : ~binds(task, op_args[task])
              THEN "import_error"
              ELSE "loaded"
    /\ UNCHANGED <<bind_at, state, tries, bound, now, log, results, direct>>

\* schedule=None: a run starts on a manual trigger only.
trigger ==
    /\ dag = "loaded"
    /\ dag' = "running"
    /\ UNCHANGED <<bind_at, state, tries, bound, now, log, results, direct>>

\* The engine starts a task (first try or retry) once every upstream task is
\* finished: with all of them successful the task is invoked with their
\* results, otherwise it is marked upstream_failed.
schedule(task) ==
    /\ dag = "running"
    /\ state[task] \in {"none", "up_for_retry"}
    /\ \A up \in upstream(task) : state[up] \in Finished
    /\ IF \A up \in upstream(task) : state[up] = "success"
       THEN /\ state' = [state EXCEPT ![task] = "running"]
            /\ tries' = [tries EXCEPT ![task] = @ + 1]
            /\ bound' = [bound EXCEPT ![task] =
                            [k \in 1..Len(op_args[task]) |-> xcom(op_args[task][k])]]
       ELSE /\ state' = [state EXCEPT ![task] = "upstream_failed"]
            /\ UNCHANGED <<tries, bound>>
    /\ UNCHANGED <<dag, bind_at, now, log, results, direct>>

\* The end of a try with outcome o: success, or a retry while tries remain.
finish(task, o) ==
    /\ state' = [state EXCEPT ![task] =
                    IF o.exc = "none" THEN "success"
                    ELSE IF tries[task] <= retries THEN "up_for_retry"
                    ELSE "failed"]
    /\ log' = log \o o.log
    /\ UNCHANGED <<dag, bind_at, tries, bound, direct>>

\* Calling a task function with args: TypeError unless they bind.
invoke(task, args, o) == IF binds(task, args) THEN o ELSE Raise("TypeError", <<>>)

run_extract_data ==
    /\ state["extract_data"] = "running"
    /\ LET o == invoke("extract_data", bound["extract_data"], extract_data)
       IN /\ finish("extract_data", o)
          /\ raw_data_res' = IF o.exc = "none" THEN o.val ELSE raw_data_res
    /\ UNCHANGED <<now, transformed_data_res, validate_data_res, loading_summary, notification>>

run_transform_data ==
    /\ state["transform_data"] = "running"
    /\ LET args == bound["transform_data"]
       IN \E ts \in Readings(Len(args[1].users), now) :
            LET o == invoke("transform_data", args, transform_data(args[1], ts))
            IN /\ finish("transform_data", o)
               /\ transformed_data_res' = IF o.exc = "none" THEN o.val ELSE transformed_data_res
               /\ now' = Last(ts, now)
    /\ UNCHANGED <<raw_data_res, validate_data_res, loading_summary, notification>>

run_validate_data ==
    /\ state["validate_data"] = "running"
    /\ LET args == bound["validate_data"]
           o == invoke("validate_data", args, validate_data(args[1]))
       IN /\ finish("validate_data", o)
          /\ validate_data_res' = IF o.exc = "none" THEN o.val ELSE validate_data_res
    /\ UNCHANGED <<now, raw_data_res, transformed_data_res, loading_summary, notification>>

run_load_data ==
    /\ state["load_data"] = "running"
    /\ LET args == bound["load_data"]
       IN \E ts \in now..MaxClock :
            LET o == invoke("load_data", args, load_data(args[1], args[2], ts))
            IN /\ finish("load_data", o)
               /\ loading_summary' = IF o.exc = "none" THEN o.val ELSE loading_summary
               /\ now' = ts
    /\ UNCHANGED <<raw_data_res, transformed_data_res, validate_data_res, notification>>

run_send_notification ==
    /\ state["send_notification"] = "running"
    /\ LET args == bound["send_notification"]
           o == invoke("send_notification", args, send_notification(args[1], args[2]))
       IN /\ finish("send_notification", o)
          /\ notification' = IF o.exc = "none" THEN o.val ELSE notification
    /\ UNCHANGED <<now, raw_data_res, transformed_data_res, validate_data_res, loading_summary>>

Next ==
    \/ parse_dag
    \/ trigger
    \/ \E task \in Tasks : schedule(task)
    \/ run_extract_data
    \/ run_transform_data
    \/ run_validate_data
    \/ run_load_data
    \/ run_send_notification

\* The DAG as the file declares it, on the built-in sample data.
Spec == Init /\ [][Next]_vars

\* ------------------------------------------------------------ input sets
SeqsUpTo(S, n) == UNION {[1..k -> S] : k \in 0..n}

RawIds == {IntV(0), IntV(1)}
RawNames == {StrV(<<>>), StrV(<<"a", "B">>)}
RawEmails == {StrV(<<"a", "@", "b">>), StrV(<<"a", "b">>), StrV(<<"a", "@">>),
              StrV(<<"a", "@", "b", "@", "c">>), StrV(<<>>)}
RawRecords == [id : RawIds, name : RawNames, email : RawEmails]

\* Raw records of a source other than the built-in one.
SourceRecords ==
    { [id |-> IntV(1), name |-> StrV(<<"a", "B">>), email |-> StrV(<<"a", "@", "b">>)],
      [id |-> IntV(0), name |-> StrV(<<>>), email |-> StrV(<<"a", "@">>)],
      [id |-> None, name |-> StrV(<<"a">>), email |-> StrV(<<"b", "@", "c">>)],
      [id |-> IntV(2), name |-> StrV(<<"c">>), email |-> StrV(<<"c", "d">>)] }

TransformedRecords ==
    [user_id : {Absent, None, IntV(0), IntV(1)},
     full_name : {Absent, StrV(<<>>), StrV(<<"A">>)},
     email_domain : {Absent, StrV(<<>>), StrV(<<"b">>)},
     processed_at : {isoformat(0)}]

LoadRecords ==
    { [user_id |-> IntV(1), full_name |-> StrV(<<"A">>), email_domain |-> StrV(<<"b">>),
       processed_at |-> isoformat(0)],
      [user_id |-> IntV(0), full_name |-> StrV(<<"A">>), email_domain |-> StrV(<<>>),
       processed_at |-> isoformat(0)],
      [user_id |-> Absent, full_name |-> Absent, email_domain |-> StrV(<<"b">>),
       processed_at |-> isoformat(0)] }

ErrorMessages ==
    { [template |-> "Missing required fields for user: {}", data |-> None],
      [template |-> "Missing email domain for user: {}", data |-> IntV(1)] }

\* Validation outcomes made by hand: any invalid_records, any error list.
ValidationOutcomes ==
    [total_records : {MaxUsers}, valid_records : {0, 1},
     invalid_records : 0..MaxInvalid, validation_errors : SeqsUpTo(ErrorMessages, MaxInvalid)]

LoadingSummaries ==
    [records_processed : 0..MaxUsers, load_timestamp : {isoformat(c) : c \in 0..MaxClock},
     status : {StrV(<<"c", "o", "m", "p", "l", "e", "t", "e", "d">>)}]

\* ------------------------------------------------------------ another source
\* extract_data with its hardcoded records replaced by those of another source.
run_extract_source ==
    /\ state["extract_data"] = "running"
    /\ \E users \in SeqsUpTo(SourceRecords, MaxSource) :
         LET o == invoke("extract_data", bound["extract_data"],
                         Return([users |-> users],
                                << Info("Starting data extraction...", None),
                                   Info("Extracted {} user records", IntV(Len(users))) >>))
         IN /\ finish("extract_data", o)
            /\ raw_data_res' = IF o.exc = "none" THEN o.val ELSE raw_data_res
    /\ UNCHANGED <<now, transformed_data_res, validate_data_res, loading_summary, notification>>

NextAny ==
    \/ parse_dag
    \/ trigger
    \/ \E task \in Tasks : schedule(task)
    \/ run_extract_source
    \/ run_transform_data
    \/ run_validate_data
    \/ run_load_data
    \/ run_send_notification

\* The DAG run on the records of any source.
SpecAny == Init /\ [][NextAny]_vars

\* ------------------------------------------------------------ direct calls
\* A call is made from the initial state: no call depends on an earlier one.
call_extract_data ==
    /\ fn = ""
    /\ fn' = "extract_data"
    /\ inp' = <<>>
    /\ out' = extract_data
    /\ UNCHANGED <<engine, results>>

call_transform_data ==
    /\ fn = ""
    /\ \E users \in SeqsUpTo(RawRecords, MaxRaw) : \E ts \in Readings(Len(users), 0) :
        /\ fn' = "transform_data"
        /\ inp' = << [users |-> users] >>
        /\ out' = transform_data([users |-> users], ts)
        /\ UNCHANGED <<engine, results>>

call_validate_data ==
    /\ fn = ""
    /\ \E users \in SeqsUpTo(TransformedRecords, MaxUsers) :
        /\ fn' = "validate_data"
        /\ inp' = << [transformed_users |-> users] >>
        /\ out' = validate_data([transformed_users |-> users])
        /\ UNCHANGED <<engine, results>>

\* load_data on a validation outcome made by hand or on the one validate_data
\* returns for the same records.
call_load_data ==
    /\ fn = ""
    /\ \E users \in SeqsUpTo(LoadRecords, MaxUsers) : \E ts \in 0..MaxClock :
        LET transformed_data == [transformed_users |-> users]
            validated == validate_data(transformed_data)
        IN \E validation_results \in ValidationOutcomes \cup
                  (IF validated.exc = "none" THEN {validated.val} ELSE {}) :
            /\ fn' = "load_data"
            /\ inp' = <<transformed_data, validation_results>>
            /\ out' = load_data(transformed_data, validation_results, ts)
            /\ UNCHANGED <<engine, results>>

call_send_notification ==
    /\ fn = ""
    /\ \E summary \in LoadingSummaries : \E validation_results \in ValidationOutcomes :
        /\ fn' = "send_notification"
        /\ inp' = <<summary, validation_results>>
        /\ out' = send_notification(summary, validation_results)
        /\ UNCHANGED <<engine, results>>

NextFn ==
    \/ call_extract_data
    \/ call_transform_data
    \/ call_validate_data
    \/ call_load_data
    \/ call_send_notification

\* Each task function called on its own, on inputs of the sets above.
SpecFn == Init /\ [][NextFn]_vars
\* ------------------------------------------------------------ properties
\* The run is over: the file did not import, or every task is finished.
RunOver ==
    \/ dag = "import_error"
    \/ dag = "running" /\ \A task \in Tasks : state[task] \in Finished

\* C1: on the built-in sample data, once the run is over send_notification has
\* returned "Notification sent successfully" and the Load summary reports
\* records_processed = 3.
C1_EndToEnd ==
    RunOver =>
        /\ notification = NotificationSent
        /\ loading_summary # None
        /\ loading_summary.records_processed = 3

\* C2: send_notification is passed both of its inputs, the result of load_data
\* and the result of validate_data, and whenever it is invoked its arguments
\* are bound to those two results.
C2_NotifyBothInputs ==
    /\ dag # "unparsed" => op_args["send_notification"] = <<"load_data", "validate_data">>
    /\ tries["send_notification"] > 0 =>
           bound["send_notification"] = <<loading_summary, validate_data_res>>

\* The tasks whose outputs each task consumes, as C3 lists them.
Consumes ==
    [extract_data |-> {},
     transform_data |-> {"extract_data"},
     validate_data |-> {"transform_data"},
     load_data |-> {"transform_data", "validate_data"},
     send_notification |-> {"load_data", "validate_data"}]

\* C3: a task has started only if every task whose output it consumes has
\* finished successfully: Transform after Extract, Validate after Transform,
\* Load after Transform and Validate, Notify after Load and Validate.
C3_Ordering ==
    \A task \in Tasks :
        tries[task] > 0 => \A up \in Consumes[task] : state[up] = "success"

\* Load and Notify have both been started.
C3_Witness ==
    /\ tries["load_data"] > 0
    /\ state["send_notification"] = "running"

IsAbsent(v) == v \in {Absent, None}

AbsentField(user) ==
    IsAbsent(user.user_id) \/ IsAbsent(user.full_name) \/ IsAbsent(user.email_domain)

\* C5: validate_data counts a record invalid exactly when its user_id, its
\* full_name or its email_domain is absent, whatever the values of the fields
\* that are present (user_id 0 included); load_data is given the records as
\* transform_data returned them.
C5_InvalidIffAbsent ==
    /\ state["validate_data"] = "success" =>
           LET users == bound["validate_data"][1].transformed_users
           IN validate_data_res.invalid_records
                  = Cardinality({k \in 1..Len(users) : AbsentField(users[k])})
    /\ tries["load_data"] > 0 => bound["load_data"][1] = transformed_data_res

\* C6: load_data returns records_processed = the number of records given and
\* status "completed", whatever the validation outcome.
C6_LoadsEverything ==
    fn = "load_data" =>
        /\ out.exc = "none"
        /\ out.val.records_processed = Len(inp[1].transformed_users)
        /\ out.val.status = StrV(<<"c", "o", "m", "p", "l", "e", "t", "e", "d">>)

\* load_data called on two records with a validation outcome that reports
\* invalid records and errors.
C6_Witness ==
    /\ fn = "load_data"
    /\ Len(inp[1].transformed_users) = 2
    /\ inp[2].invalid_records > 0
    /\ inp[2].validation_errors # <<>>
    /\ out.val.records_processed = 2

\* A well-formed email holds exactly one '@'.
WellFormed(chars) == Cardinality({k \in 1..Len(chars) : chars[k] = "@"}) = 1

\* The characters after the '@'.
AfterAt(chars) ==
    LET k == CHOOSE j \in 1..Len(chars) : chars[j] = "@"
    IN [j \in 1..(Len(chars) - k) |-> chars[k + j]]

\* b is a in upper case: each lower-case letter replaced by its capital.
IsUpperOf(a, b) ==
    /\ Len(b) = Len(a)
    /\ \A k \in 1..Len(a) :
          IF \E j \in 1..Len(LowerCase) : LowerCase[j] = a[k]
          THEN \E j \in 1..Len(LowerCase) : LowerCase[j] = a[k] /\ UpperCase[j] = b[k]
          ELSE b[k] = a[k]

\* C7: on raw records whose emails are well-formed, transform_data returns one
\* record per raw record, in order, with user_id the raw id, full_name the
\* raw name in upper case and email_domain what follows the '@'.
C7_Transform ==
    (fn = "transform_data" /\ \A k \in 1..Len(inp[1].users) : WellFormed(inp[1].users[k].email.s)) =>
        /\ out.exc = "none"
        /\ Len(out.val.transformed_users) = Len(inp[1].users)
        /\ \A k \in 1..Len(inp[1].users) :
              LET raw == inp[1].users[k]
                  new == out.val.transformed_users[k]
              IN /\ new.user_id = raw.id
                 /\ IsUpperOf(raw.name.s, new.full_name.s)
                 /\ new.email_domain.s = AfterAt(raw.email.s)

\* Two different raw records with well-formed emails, the first with a name
\* that upper() changes.
C7_Witness ==
    /\ fn = "transform_data"
    /\ out.exc = "none"
    /\ Len(inp[1].users) = 2
    /\ \A k \in 1..2 : WellFormed(inp[1].users[k].email.s)
    /\ inp[1].users[1].id # inp[1].users[2].id
    /\ inp[1].users[1].email # inp[1].users[2].email
    /\ out.val.transformed_users[1].full_name # inp[1].users[1].name

NoAt(chars) == \A k \in 1..Len(chars) : chars[k] # "@"

\* Extract has returned records of which one has an email without '@'.
MalformedSource ==
    /\ raw_data_res # None
    /\ \E k \in 1..Len(raw_data_res.users) : NoAt(raw_data_res.users[k].email.s)

\* C8: when a raw record's email has no '@', transform_data never succeeds and
\* leaves no result, it is tried at most twice (one retry), and Validate, Load
\* and Notify are never invoked.
C8_TransformFailure ==
    MalformedSource =>
        /\ state["transform_data"] # "success"
        /\ transformed_data_res = None
        /\ tries["transform_data"] <= 2
        /\ \A task \in {"validate_data", "load_data", "send_notification"} :
              tries[task] = 0 /\ state[task] \in {"none", "upstream_failed"}

\* Transform has failed for good, after its retry, and the run is over.
C8_Witness ==
    /\ MalformedSource
    /\ state["transform_data"] = "failed"
    /\ tries["transform_data"] = 2
    /\ \A task \in {"validate_data", "load_data", "send_notification"} :
          state[task] = "upstream_failed"

\* C9: validate_data returns on every list of transformed records, whichever
\* of user_id, full_name and email_domain are absent: it never raises.
C9_ValidateNeverRaises ==
    fn = "validate_data" => out.exc = "none"

WarningLines(lines) == {k \in 1..Len(lines) : lines[k].level = "WARNING"}

\* C10: in every result of validate_data the number of error messages lies
\* between invalid_records and twice invalid_records, and there is none
\* exactly when invalid_records = 0; so load_data, given that result, logs
\* warnings exactly when there is an error message.
C10_ErrorsVsInvalid ==
    /\ (fn = "validate_data" /\ out.exc = "none") =>
           LET res == out.val
           IN /\ res.invalid_records <= Len(res.validation_errors)
              /\ Len(res.validation_errors) <= 2 * res.invalid_records
              /\ (res.validation_errors = <<>>) <=> (res.invalid_records = 0)
    /\ (/\ fn = "load_data"
        /\ validate_data(inp[1]).exc = "none"
        /\ inp[2] = validate_data(inp[1]).val) =>
           ((WarningLines(out.log) # {}) <=> (inp[2].validation_errors # <<>>))

\* load_data given the result of validate_data for a record with two error
\* messages, and logging warnings.
C10_Witness ==
    /\ fn = "load_data"
    /\ validate_data(inp[1]).exc = "none"
    /\ inp[2] = validate_data(inp[1]).val
    /\ inp[2].invalid_records = 1
    /\ Len(inp[2].validation_errors) = 2
    /\ WarningLines(out.log) # {}
====
